---- MODULE Spec2Model ----
(***************************************************************************)
(* Model of the kernel mutex of src/kmutex.c (kmutex_init, kmutex_lock,    *)
(* kmutex_lock_cancellable, kmutex_unlock) on one logical CPU.  Threads    *)
(* run one at a time (curthr); the CPU changes hands only inside           *)
(* sched_switch.  A failed KASSERT panics the kernel and halts it.         *)
(***************************************************************************)
EXTENDS Integers, Sequences, FiniteSets, TLC

\* number of kernel threads that use the mutex
NumThreads == 3

Threads == 1..NumThreads

\* the null thread pointer
NULL == 0

\* errno of an interrupted call
EINTR == 4

VARIABLES
  curthr,        \* the executing thread (globals.h curthr)
  runq,          \* the scheduler's run queue, head first
  kt_state,      \* kthread_t.kt_state of every thread
  kt_cancelled,  \* kthread_t.kt_cancelled of every thread
  km_holder,     \* kmutex_t.km_holder
  km_waitq,      \* kmutex_t.km_waitq.tq_list, head first
  tq_size,       \* kmutex_t.km_waitq.tq_size
  pc,            \* where each thread is: "ready" (outside the mutex code),
                 \* "lock_resume" (kmutex.c:53), "lockc_resume" (kmutex.c:78)
  ret,           \* <<v>>: value kmutex_lock_cancellable just returned to the
                 \* thread, <<>> when its last call returned nothing (yet)
  panic,         \* "none", or the KASSERT that failed
  owns,          \* history: threads between a successful return of a lock
                 \* call and their matching kmutex_unlock
  wake,          \* history: how each thread's last lock call was granted or
                 \* ended: "none", "claim", "blocked", "deferred" (cancelled
                 \* in an uninterruptible sleep), "handoff", "cancel"
  before         \* history: <<u, t>> when u and t both sleep on the mutex
                 \* and u called its lock function first

vars == <<curthr, runq, kt_state, kt_cancelled, km_holder, km_waitq, tq_size,
          pc, ret, panic, owns, wake, before>>

----------------------------------------------------------------------------
InQueue(q, t) == \E i \in DOMAIN q : q[i] = t

\* ktqueue_enqueue: link the thread at the tail
ktqueue_enqueue(q, t) == Append(q, t)

\* ktqueue_dequeue: the thread at the head, and the rest of the queue
ktqueue_head(q) == Head(q)
ktqueue_rest(q) == Tail(q)

\* ktqueue_remove: unlink one thread, the others keep their order
ktqueue_remove(q, t) == SelectSeq(q, LAMBDA x : x # t)

\* sched_make_runnable: link the thread at the tail of the run queue
sched_make_runnable(q, t) == Append(q, t)

\* sched_switch: the thread the CPU goes to, and the run queue it leaves
sched_switch_next(q) == IF q = <<>> THEN NULL ELSE Head(q)
sched_switch_rest(q) == IF q = <<>> THEN <<>> ELSE Tail(q)

\* the threads asleep on the mutex
Sleepers == {u \in Threads : pc[u] # "ready" /\ kt_state[u] # "KT_RUN"}

----------------------------------------------------------------------------
\* kmutex_init, then every thread created runnable in order; the first one
\* executes
Init ==
  /\ curthr = 1
  /\ runq = [i \in 1..(NumThreads - 1) |-> i + 1]
  /\ kt_state = [t \in Threads |-> "KT_RUN"]
  /\ kt_cancelled = [t \in Threads |-> FALSE]
  /\ km_holder = NULL
  /\ km_waitq = <<>>
  /\ tq_size = 0
  /\ pc = [t \in Threads |-> "ready"]
  /\ ret = [t \in Threads |-> <<>>]
  /\ panic = "none"
  /\ owns = {}
  /\ wake = [t \in Threads |-> "none"]
  /\ before = {}

\* a thread between two calls, executing
Running(t) == panic = "none" /\ curthr = t /\ pc[t] = "ready"

\* kmutex_lock that takes the mutex whether or not it is free
KmutexLock_Steal(t) ==
  /\ Running(t)
  /\ t # km_holder
  /\ pc' = [pc EXCEPT ![t] = "lock_resume"]
  /\ ret' = [ret EXCEPT ![t] = <<>>]
  /\ km_holder' = t
  /\ wake' = [wake EXCEPT ![t] = "claim"]
  /\ UNCHANGED <<curthr, runq, kt_state, km_waitq, tq_size, before,
                 kt_cancelled, panic, owns>>

\* kmutex_lock without its precondition KASSERT
KmutexLock_NoPre(t) ==
  /\ Running(t)
  /\ pc' = [pc EXCEPT ![t] = "lock_resume"]
  /\ ret' = [ret EXCEPT ![t] = <<>>]
  /\ IF km_holder = NULL
     THEN /\ km_holder' = t
          /\ wake' = [wake EXCEPT ![t] = "claim"]
          /\ UNCHANGED <<curthr, runq, kt_state, km_waitq, tq_size, before>>
     ELSE /\ kt_state' = [kt_state EXCEPT ![t] = "KT_SLEEP"]
          /\ km_waitq' = ktqueue_enqueue(km_waitq, t)
          /\ tq_size' = tq_size + 1
          /\ curthr' = sched_switch_next(runq)
          /\ runq' = sched_switch_rest(runq)
          /\ wake' = [wake EXCEPT ![t] = "blocked"]
          /\ before' = before \cup {<<u, t>> : u \in Sleepers}
          /\ UNCHANGED km_holder
  /\ UNCHANGED <<kt_cancelled, panic, owns>>

\* kmutex_lock that goes through sched_switch on the free path too
KmutexLock_AlwaysSwitch(t) ==
  /\ Running(t)
  /\ t # km_holder
  /\ pc' = [pc EXCEPT ![t] = "lock_resume"]
  /\ ret' = [ret EXCEPT ![t] = <<>>]
  /\ IF km_holder = NULL
     THEN /\ km_holder' = t
          /\ wake' = [wake EXCEPT ![t] = "claim"]
          /\ curthr' = sched_switch_next(sched_make_runnable(runq, t))
          /\ runq' = sched_switch_rest(sched_make_runnable(runq, t))
          /\ UNCHANGED <<kt_state, km_waitq, tq_size, before>>
     ELSE /\ kt_state' = [kt_state EXCEPT ![t] = "KT_SLEEP"]
          /\ km_waitq' = ktqueue_enqueue(km_waitq, t)
          /\ tq_size' = tq_size + 1
          /\ curthr' = sched_switch_next(runq)
          /\ runq' = sched_switch_rest(runq)
          /\ wake' = [wake EXCEPT ![t] = "blocked"]
          /\ before' = before \cup {<<u, t>> : u \in Sleepers}
          /\ UNCHANGED km_holder
  /\ UNCHANGED <<kt_cancelled, panic, owns>>

\* kmutex_lock that sleeps in the cancellable state
KmutexLock_CancellableSleep(t) ==
  /\ Running(t)
  /\ t # km_holder
  /\ pc' = [pc EXCEPT ![t] = "lock_resume"]
  /\ ret' = [ret EXCEPT ![t] = <<>>]
  /\ IF km_holder = NULL
     THEN /\ km_holder' = t
          /\ wake' = [wake EXCEPT ![t] = "claim"]
          /\ UNCHANGED <<curthr, runq, kt_state, km_waitq, tq_size, before>>
     ELSE /\ kt_state' = [kt_state EXCEPT ![t] = "KT_SLEEP_CANCELLABLE"]
          /\ km_waitq' = ktqueue_enqueue(km_waitq, t)
          /\ tq_size' = tq_size + 1
          /\ curthr' = sched_switch_next(runq)
          /\ runq' = sched_switch_rest(runq)
          /\ wake' = [wake EXCEPT ![t] = "blocked"]
          /\ before' = before \cup {<<u, t>> : u \in Sleepers}
          /\ UNCHANGED km_holder
  /\ UNCHANGED <<kt_cancelled, panic, owns>>

\* kmutex_lock up to its suspension point (kmutex.c:40-51)
KmutexLock(t) ==
  /\ Running(t)
  /\ IF t = km_holder
     THEN /\ panic' = "kmutex_lock:40"
          /\ UNCHANGED <<curthr, runq, kt_state, kt_cancelled, km_holder,
                         km_waitq, tq_size, pc, ret, owns, wake, before>>
     ELSE /\ pc' = [pc EXCEPT ![t] = "lock_resume"]
          /\ ret' = [ret EXCEPT ![t] = <<>>]
          /\ IF km_holder = NULL
             THEN /\ km_holder' = t
                  /\ wake' = [wake EXCEPT ![t] = "claim"]
                  /\ UNCHANGED <<curthr, runq, kt_state, km_waitq, tq_size,
                                 before>>
             ELSE /\ kt_state' = [kt_state EXCEPT ![t] = "KT_SLEEP"]
                  /\ km_waitq' = ktqueue_enqueue(km_waitq, t)
                  /\ tq_size' = tq_size + 1
                  /\ curthr' = sched_switch_next(runq)
                  /\ runq' = sched_switch_rest(runq)
                  /\ wake' = [wake EXCEPT ![t] = "blocked"]
                  /\ before' = before \cup {<<u, t>> : u \in Sleepers}
                  /\ UNCHANGED km_holder
          /\ UNCHANGED <<kt_cancelled, panic, owns>>

\* kmutex_lock from its suspension point to its return (kmutex.c:53-55)
KmutexLockReturn(t) ==
  /\ panic = "none" /\ curthr = t /\ pc[t] = "lock_resume"
  /\ IF t = km_holder
     THEN /\ pc' = [pc EXCEPT ![t] = "ready"]
          /\ owns' = owns \cup {t}
          /\ UNCHANGED panic
     ELSE /\ panic' = "kmutex_lock:54"
          /\ UNCHANGED <<pc, owns>>
  /\ UNCHANGED <<curthr, runq, kt_state, kt_cancelled, km_holder, km_waitq,
                 tq_size, ret, wake, before>>

\* kmutex_unlock that hands the mutex to the newest waiter
kmutex_unlock_newest(t) ==
  IF t # km_holder
  THEN /\ panic' = "kmutex_unlock:107"
       /\ UNCHANGED <<km_holder, km_waitq, tq_size, kt_state, runq, wake,
                      before>>
  ELSE /\ IF tq_size = 0
          THEN /\ km_holder' = NULL
               /\ UNCHANGED <<km_waitq, tq_size, kt_state, runq, wake, before>>
          ELSE LET next_in_queue == km_waitq[Len(km_waitq)] IN
               /\ km_waitq' = SubSeq(km_waitq, 1, Len(km_waitq) - 1)
               /\ tq_size' = tq_size - 1
               /\ km_holder' = next_in_queue
               /\ kt_state' = [kt_state EXCEPT ![next_in_queue] = "KT_RUN"]
               /\ runq' = sched_make_runnable(runq, next_in_queue)
               /\ wake' = [wake EXCEPT ![next_in_queue] = "handoff"]
               /\ before' = {p \in before : p[1] # next_in_queue
                                            /\ p[2] # next_in_queue}
       /\ panic' = IF km_holder' = t THEN "kmutex_unlock:123" ELSE "none"

\* kmutex_unlock that frees the mutex and only wakes the head waiter
kmutex_unlock_release(t) ==
  IF t # km_holder
  THEN /\ panic' = "kmutex_unlock:107"
       /\ UNCHANGED <<km_holder, km_waitq, tq_size, kt_state, runq, wake,
                      before>>
  ELSE /\ km_holder' = NULL
       /\ IF tq_size = 0
          THEN UNCHANGED <<km_waitq, tq_size, kt_state, runq, wake, before>>
          ELSE LET next_in_queue == ktqueue_head(km_waitq) IN
               /\ km_waitq' = ktqueue_rest(km_waitq)
               /\ tq_size' = tq_size - 1
               /\ kt_state' = [kt_state EXCEPT ![next_in_queue] = "KT_RUN"]
               /\ runq' = sched_make_runnable(runq, next_in_queue)
               /\ wake' = [wake EXCEPT ![next_in_queue] = "handoff"]
               /\ before' = {p \in before : p[1] # next_in_queue
                                            /\ p[2] # next_in_queue}
       /\ panic' = IF km_holder' = t THEN "kmutex_unlock:123" ELSE "none"

\* kmutex_unlock that forgets to clear km_holder when nobody waits
kmutex_unlock_keep(t) ==
  IF t # km_holder
  THEN /\ panic' = "kmutex_unlock:107"
       /\ UNCHANGED <<km_holder, km_waitq, tq_size, kt_state, runq, wake,
                      before>>
  ELSE /\ IF tq_size = 0
          THEN UNCHANGED <<km_holder, km_waitq, tq_size, kt_state, runq, wake,
                           before>>
          ELSE LET next_in_queue == ktqueue_head(km_waitq) IN
               /\ km_waitq' = ktqueue_rest(km_waitq)
               /\ tq_size' = tq_size - 1
               /\ km_holder' = next_in_queue
               /\ kt_state' = [kt_state EXCEPT ![next_in_queue] = "KT_RUN"]
               /\ runq' = sched_make_runnable(runq, next_in_queue)
               /\ wake' = [wake EXCEPT ![next_in_queue] = "handoff"]
               /\ before' = {p \in before : p[1] # next_in_queue
                                            /\ p[2] # next_in_queue}
       /\ panic' = IF km_holder' = t THEN "kmutex_unlock:123" ELSE "none"

\* kmutex_unlock that does not put the new holder on the run queue
kmutex_unlock_nowake(t) ==
  IF t # km_holder
  THEN /\ panic' = "kmutex_unlock:107"
       /\ UNCHANGED <<km_holder, km_waitq, tq_size, kt_state, runq, wake,
                      before>>
  ELSE /\ IF tq_size = 0
          THEN /\ km_holder' = NULL
               /\ UNCHANGED <<km_waitq, tq_size, kt_state, runq, wake, before>>
          ELSE LET next_in_queue == ktqueue_head(km_waitq) IN
               /\ km_waitq' = ktqueue_rest(km_waitq)
               /\ tq_size' = tq_size - 1
               /\ km_holder' = next_in_queue
               /\ kt_state' = [kt_state EXCEPT ![next_in_queue] = "KT_RUN"]
               /\ UNCHANGED runq
               /\ wake' = [wake EXCEPT ![next_in_queue] = "handoff"]
               /\ before' = {p \in before : p[1] # next_in_queue
                                            /\ p[2] # next_in_queue}
       /\ panic' = IF km_holder' = t THEN "kmutex_unlock:123" ELSE "none"

\* kmutex_unlock that leaves the new holder in its sleep state
kmutex_unlock_nostate(t) ==
  IF t # km_holder
  THEN /\ panic' = "kmutex_unlock:107"
       /\ UNCHANGED <<km_holder, km_waitq, tq_size, kt_state, runq, wake,
                      before>>
  ELSE /\ IF tq_size = 0
          THEN /\ km_holder' = NULL
               /\ UNCHANGED <<km_waitq, tq_size, kt_state, runq, wake, before>>
          ELSE LET next_in_queue == ktqueue_head(km_waitq) IN
               /\ km_waitq' = ktqueue_rest(km_waitq)
               /\ tq_size' = tq_size - 1
               /\ km_holder' = next_in_queue
               /\ UNCHANGED kt_state
               /\ runq' = sched_make_runnable(runq, next_in_queue)
               /\ wake' = [wake EXCEPT ![next_in_queue] = "handoff"]
               /\ before' = {p \in before : p[1] # next_in_queue
                                            /\ p[2] # next_in_queue}
       /\ panic' = IF km_holder' = t THEN "kmutex_unlock:123" ELSE "none"

\* the body of kmutex_unlock called by thread t (kmutex.c:107-124)
kmutex_unlock(t) ==
  IF t # km_holder
  THEN /\ panic' = "kmutex_unlock:107"
       /\ UNCHANGED <<km_holder, km_waitq, tq_size, kt_state, runq, wake,
                      before>>
  ELSE /\ IF tq_size = 0
          THEN /\ km_holder' = NULL
               /\ UNCHANGED <<km_waitq, tq_size, kt_state, runq, wake, before>>
          ELSE LET next_in_queue == ktqueue_head(km_waitq) IN
               /\ km_waitq' = ktqueue_rest(km_waitq)
               /\ tq_size' = tq_size - 1
               /\ km_holder' = next_in_queue
               /\ kt_state' = [kt_state EXCEPT ![next_in_queue] = "KT_RUN"]
               /\ runq' = sched_make_runnable(runq, next_in_queue)
               /\ wake' = [wake EXCEPT ![next_in_queue] = "handoff"]
               /\ before' = {p \in before : p[1] # next_in_queue
                                            /\ p[2] # next_in_queue}
       /\ panic' = IF km_holder' = t THEN "kmutex_unlock:123" ELSE "none"

\* a thread calls kmutex_unlock
KmutexUnlock(t) ==
  /\ Running(t)
  /\ kmutex_unlock(t)
  /\ owns' = IF t = km_holder THEN owns \ {t} ELSE owns
  /\ UNCHANGED <<curthr, kt_cancelled, pc, ret>>

\* kmutex_lock_cancellable up to its suspension point (kmutex.c:65-76)
KmutexLockCancellable(t) ==
  /\ Running(t)
  /\ IF t = km_holder
     THEN /\ panic' = "kmutex_lock_cancellable:65"
          /\ UNCHANGED <<curthr, runq, kt_state, kt_cancelled, km_holder,
                         km_waitq, tq_size, pc, ret, owns, wake, before>>
     ELSE /\ pc' = [pc EXCEPT ![t] = "lockc_resume"]
          /\ ret' = [ret EXCEPT ![t] = <<>>]
          /\ IF km_holder = NULL
             THEN /\ km_holder' = t
                  /\ wake' = [wake EXCEPT ![t] = "claim"]
                  /\ UNCHANGED <<curthr, runq, kt_state, km_waitq, tq_size,
                                 before>>
             ELSE /\ kt_state' = [kt_state EXCEPT ![t] = "KT_SLEEP_CANCELLABLE"]
                  /\ km_waitq' = ktqueue_enqueue(km_waitq, t)
                  /\ tq_size' = tq_size + 1
                  /\ curthr' = sched_switch_next(runq)
                  /\ runq' = sched_switch_rest(runq)
                  /\ wake' = [wake EXCEPT ![t] = "blocked"]
                  /\ before' = before \cup {<<u, t>> : u \in Sleepers}
                  /\ UNCHANGED km_holder
          /\ UNCHANGED <<kt_cancelled, panic, owns>>

\* kmutex_lock_cancellable that reports the interruption and keeps the mutex
KmutexLockCancellableReturn_KeepLock(t) ==
  /\ panic = "none" /\ curthr = t /\ pc[t] = "lockc_resume"
  /\ IF t # km_holder
     THEN /\ panic' = "kmutex_lock_cancellable:79"
          /\ UNCHANGED <<pc, ret, owns>>
     ELSE /\ ret' = [ret EXCEPT ![t] = IF kt_cancelled[t] THEN <<-EINTR>>
                                                          ELSE <<0>>]
          /\ pc' = [pc EXCEPT ![t] = "ready"]
          /\ owns' = IF kt_cancelled[t] THEN owns ELSE owns \cup {t}
          /\ UNCHANGED panic
  /\ UNCHANGED <<curthr, kt_cancelled, runq, kt_state, km_holder, km_waitq,
                 tq_size, wake, before>>

\* kmutex_lock_cancellable from its suspension point to its return
\* (kmutex.c:78-87)
KmutexLockCancellableReturn(t) ==
  /\ panic = "none" /\ curthr = t /\ pc[t] = "lockc_resume"
  /\ IF t # km_holder
     THEN /\ panic' = "kmutex_lock_cancellable:79"
          /\ UNCHANGED <<runq, kt_state, km_holder, km_waitq, tq_size, pc,
                         ret, owns, wake, before>>
     ELSE IF kt_cancelled[t]
     THEN /\ kmutex_unlock(t)
          /\ ret' = [ret EXCEPT ![t] = <<-EINTR>>]
          /\ pc' = [pc EXCEPT ![t] = "ready"]
          /\ UNCHANGED owns
     ELSE /\ ret' = [ret EXCEPT ![t] = <<0>>]
          /\ pc' = [pc EXCEPT ![t] = "ready"]
          /\ owns' = owns \cup {t}
          /\ UNCHANGED <<runq, kt_state, km_holder, km_waitq, tq_size, panic,
                         wake, before>>
  /\ UNCHANGED <<curthr, kt_cancelled>>

\* kthread_cancel(k, retval) called by thread t on another thread: the flag
\* is set, and a thread in a cancellable sleep is taken off its wait queue
\* and made runnable; any other thread is left where it is
KthreadCancel(t, k) ==
  /\ Running(t)
  /\ k # t
  /\ kt_cancelled' = [kt_cancelled EXCEPT ![k] = TRUE]
  /\ IF kt_state[k] = "KT_SLEEP_CANCELLABLE"
     THEN /\ km_waitq' = ktqueue_remove(km_waitq, k)
          /\ tq_size' = tq_size - 1
          /\ kt_state' = [kt_state EXCEPT ![k] = "KT_RUN"]
          /\ runq' = sched_make_runnable(runq, k)
          /\ wake' = [wake EXCEPT ![k] = "cancel"]
          /\ before' = {p \in before : p[1] # k /\ p[2] # k}
     ELSE /\ wake' = IF kt_state[k] = "KT_SLEEP"
                     THEN [wake EXCEPT ![k] = "deferred"]
                     ELSE wake
          /\ UNCHANGED <<km_waitq, tq_size, kt_state, runq, before>>
  /\ UNCHANGED <<curthr, km_holder, pc, ret, panic, owns>>

\* the executing thread gives up the CPU between two calls: it goes to the
\* tail of the run queue and sched_switch runs the head; the outcome of its
\* last lock call is history that ends here
SchedYield(t) ==
  /\ Running(t)
  /\ runq # <<>>
  /\ curthr' = sched_switch_next(sched_make_runnable(runq, t))
  /\ runq' = sched_switch_rest(sched_make_runnable(runq, t))
  /\ ret' = [ret EXCEPT ![t] = <<>>]
  /\ wake' = [wake EXCEPT ![t] = "none"]
  /\ UNCHANGED <<kt_state, kt_cancelled, km_holder, km_waitq, tq_size, pc,
                 panic, owns, before>>

Next ==
  \E t \in Threads :
    \/ KmutexLock(t)
    \/ KmutexLockReturn(t)
    \/ KmutexLockCancellable(t)
    \/ KmutexLockCancellableReturn(t)
    \/ KmutexUnlock(t)
    \/ SchedYield(t)
    \/ \E k \in Threads : KthreadCancel(t, k)

Spec == Init /\ [][Next]_vars

----------------------------------------------------------------------------
\* The same kernel with callers that keep the contract: no thread locks the
\* mutex it holds or unlocks a mutex it does not hold.
LockCall(t) == t # km_holder /\ KmutexLock(t)

LockCancellableCall(t) == t # km_holder /\ KmutexLockCancellable(t)

UnlockCall(t) == t = km_holder /\ KmutexUnlock(t)

LiveNext ==
  \E t \in Threads :
    \/ LockCall(t)
    \/ KmutexLockReturn(t)
    \/ LockCancellableCall(t)
    \/ KmutexLockCancellableReturn(t)
    \/ UnlockCall(t)
    \/ SchedYield(t)
    \/ \E k \in Threads : KthreadCancel(t, k)

\* the executing thread always takes its next step, and a thread that holds
\* the mutex and keeps getting the CPU eventually unlocks it
LiveSpec ==
  /\ Init
  /\ [][LiveNext]_vars
  /\ WF_vars(LiveNext)
  /\ \A t \in Threads : SF_vars(UnlockCall(t))

----------------------------------------------------------------------------
\* The end-to-end scenario, for any three threads in the roles A, B and C:
\* A locks the free mutex, B calls kmutex_lock_cancellable while A holds it,
\* C (a thread that is not B and does not hold the mutex) cancels B while B
\* is inside that call, and A unlocks once B has called.  The threads take
\* the CPU in any order; a thread that came to hold the mutex may be A again.
ScenarioLock(a) ==
  /\ km_holder = NULL /\ owns = {}
  /\ \A t \in Threads : pc[t] = "ready" /\ ~ kt_cancelled[t]
  /\ KmutexLock(a)

ScenarioLockCancellable(b) ==
  /\ km_holder \in owns /\ km_holder # b
  /\ \A t \in Threads : pc[t] = "ready" /\ ~ kt_cancelled[t]
  /\ KmutexLockCancellable(b)

ScenarioCancel(c, b) ==
  /\ pc[b] = "lockc_resume" /\ c # km_holder
  /\ KthreadCancel(c, b)

ScenarioUnlock(a) ==
  /\ \E b \in Threads : pc[b] = "lockc_resume"
  /\ km_holder = a /\ a \in owns
  /\ KmutexUnlock(a)

ScenarioNext ==
  \E t \in Threads :
    \/ ScenarioLock(t)
    \/ KmutexLockReturn(t)
    \/ ScenarioLockCancellable(t)
    \/ KmutexLockCancellableReturn(t)
    \/ \E b \in Threads : ScenarioCancel(t, b)
    \/ ScenarioUnlock(t)
    \/ SchedYield(t)

ScenarioSpec == Init /\ [][ScenarioNext]_vars

----------------------------------------------------------------------------
TypeOK ==
  /\ curthr \in Threads \cup {NULL}
  /\ km_holder \in Threads \cup {NULL}
  /\ tq_size \in 0..NumThreads
  /\ owns \subseteq Threads

\* C1: at most one thread is between a successful return from a lock call
\* and its matching kmutex_unlock
C1_MutualExclusion == Cardinality(owns) <= 1

C1_Witness == \E t \in Threads : owns = {t} /\ tq_size >= 1

\* C2: the mutex is handed to a waiter only when no thread that went to
\* sleep on the mutex before it is still waiting (no overtaking among the
\* waiters)
C2_FifoHandoff ==
  [][\A t \in Threads :
       (wake'[t] = "handoff" /\ wake[t] # "handoff")
         => ~ \E u \in Threads : <<u, t>> \in before]_vars

C2_Witness ==
  \E t \in Threads :
    /\ wake[t] = "handoff" /\ pc[t] # "ready"
    /\ \E u \in Sleepers : u # t

\* C3: when a thread that was cancelled in its cancellable sleep on the
\* mutex resumes, its kmutex_lock_cancellable call returns -EINTR and the
\* thread is not the holder
C3_CancelledSleeperReportsInterruption ==
  [][\A t \in Threads :
       (panic = "none" /\ curthr = t /\ pc[t] = "lockc_resume"
          /\ wake[t] = "cancel")
         => /\ pc'[t] = "ready"
            /\ ret'[t] = <<-EINTR>>
            /\ km_holder' # t]_vars

\* C4: kmutex_lock's postcondition KASSERT never fails, and a thread that was
\* made runnable inside kmutex_lock is the holder of the mutex
C4_LockReturnsAsHolder ==
  /\ panic # "kmutex_lock:54"
  /\ \A t \in Threads :
       (pc[t] = "lock_resume" /\ kt_state[t] = "KT_RUN") => km_holder = t

C4_Witness ==
  \E t \in Threads :
    /\ pc[t] = "ready" /\ wake[t] = "handoff" /\ ret[t] = <<>>
    /\ t \in owns /\ km_holder = t

\* C5: kmutex_lock_cancellable returns 0 only to the holder; resumed by an
\* immediate claim or by a hand-off it returns -EINTR exactly when the
\* caller's cancelled flag is set, and then the caller is not the holder
C5_CancellableReturnValue ==
  [][\A t \in Threads :
       (panic = "none" /\ curthr = t /\ pc[t] = "lockc_resume")
         => /\ (pc'[t] = "ready" /\ ret'[t] = <<0>>) => km_holder' = t
            /\ wake[t] \in {"claim", "handoff"}
                 => /\ panic' = "none"
                    /\ pc'[t] = "ready"
                    /\ ret'[t] = IF kt_cancelled[t] THEN <<-EINTR>>
                                                    ELSE <<0>>
                    /\ ret'[t] = <<-EINTR>> => km_holder' # t]_vars

C5_Witness ==
  \E t \in Threads :
    pc[t] = "ready" /\ ret[t] = <<-EINTR>> /\ wake[t] = "handoff"

\* C6: an unlock with waiters moves km_holder straight to the head waiter,
\* never through NULL, and the thread that was handed the mutex is still the
\* holder until it resumes
C6_AtomicHandoff ==
  [][/\ (km_holder # NULL /\ tq_size > 0 /\ km_holder' # km_holder)
          => (km_holder' # NULL /\ km_holder' = Head(km_waitq))
     /\ \A t \in Threads :
          (pc'[t] # "ready" /\ wake'[t] = "handoff") => km_holder' = t]_vars

C6_Witness ==
  \E t, u \in Threads :
    /\ t # u
    /\ wake[t] = "handoff" /\ pc[t] # "ready" /\ km_holder = t
    /\ curthr = u /\ pc[u] = "ready" /\ panic = "none"

\* C7: under LiveSpec every thread that sleeps on the mutex eventually
\* becomes its holder or returns from its lock call
C7_NoStarvation ==
  \A t \in Threads :
    (pc[t] # "ready" /\ kt_state[t] # "KT_RUN")
      ~> (km_holder = t \/ pc[t] = "ready")

\* C8: kmutex_unlock with no waiter sets km_holder to NULL; with waiters it
\* makes the head the holder, takes exactly it off the queue and keeps the
\* order of the others
C8_UnlockEffect ==
  [][(km_holder # NULL /\ km_holder' # km_holder)
       => IF tq_size = 0
          THEN km_holder' = NULL /\ km_waitq' = km_waitq /\ tq_size' = 0
          ELSE /\ km_holder' = Head(km_waitq)
               /\ tq_size' = tq_size - 1
               /\ km_waitq' = Tail(km_waitq)]_vars

C8_Witness ==
  /\ km_holder # NULL
  /\ wake[km_holder] = "handoff"
  /\ InQueue(runq, km_holder)
  /\ tq_size = 1 /\ Len(km_waitq) = 1

\* C9: a lock call on a free mutex makes the caller the holder in that step
\* and does not suspend: the caller stays KT_RUN, off the wait queue, and
\* still executing
C9_FreeLockNoSuspend ==
  [][\A t \in Threads :
       (Running(t) /\ km_holder = NULL /\ pc'[t] # "ready")
         => /\ km_holder' = t
            /\ kt_state'[t] = "KT_RUN"
            /\ ~ InQueue(km_waitq', t)
            /\ curthr' = t /\ runq' = runq]_vars

C9_Witness ==
  \E t \in Threads :
    /\ wake[t] = "claim" /\ pc[t] = "lockc_resume"
    /\ curthr = t /\ km_holder = t /\ kt_state[t] = "KT_RUN"

\* C10: a lock call by the holder and an unlock call by a thread that is not
\* the holder end in the precondition KASSERT, with the holder, the wait
\* queue, the thread states and the scheduler untouched
PreconditionFailure ==
  {"kmutex_lock:40", "kmutex_lock_cancellable:65", "kmutex_unlock:107"}

C10_PreconditionDetected ==
  [][/\ (panic = "none" /\ panic' \in PreconditionFailure)
          => UNCHANGED <<km_holder, km_waitq, tq_size, kt_state, kt_cancelled,
                         curthr, runq, pc>>
     /\ \A t \in Threads :
          (Running(t) /\ km_holder = t /\ panic' \notin PreconditionFailure)
            => pc'[t] = "ready" /\ ~ InQueue(km_waitq', t)
     /\ (km_holder # NULL /\ km_holder' # km_holder) => curthr = km_holder]_vars

C10_Witness ==
  /\ panic = "kmutex_unlock:107"
  /\ km_holder # NULL /\ km_holder # curthr /\ tq_size >= 1

\* C11: kmutex_unlock's postcondition KASSERT never fails, and a thread that
\* is outside the lock code and not between a successful lock return and its
\* unlock is not the holder, whether kmutex_unlock was called by the thread
\* or from inside kmutex_lock_cancellable
C11_UnlockPostcondition ==
  /\ panic # "kmutex_unlock:123"
  /\ \A t \in Threads :
       (panic = "none" /\ pc[t] = "ready" /\ t \notin owns) => km_holder # t

C11_Witness ==
  \E t \in Threads :
    /\ curthr = t /\ pc[t] = "ready" /\ ret[t] = <<-EINTR>>
    /\ t \notin owns /\ panic = "none"
    /\ km_holder \in Threads \ {t}
    /\ pc[km_holder] # "ready"

\* C12: in the scenario of ScenarioSpec no KASSERT fails, and once B has been
\* cancelled, is out of its call and A has unlocked, the mutex is free with
\* an empty wait queue, B does not own it and B's call returned -EINTR
C12_ScenarioOutcome ==
  /\ panic = "none"
  /\ \A b \in Threads :
       (kt_cancelled[b] /\ pc[b] = "ready")
         => /\ km_holder = NULL /\ km_waitq = <<>> /\ tq_size = 0
            /\ owns = {}
            /\ ret[b] \in {<<>>, <<-EINTR>>}

\* C13: when a thread that claimed the free mutex with kmutex_lock and has
\* kept the CPU since unlocks it, the mutex is back in the state kmutex_init
\* produces (no holder, empty wait queue of size 0) and the thread is still
\* KT_RUN and executing
C13_LockUnlockRoundTrip ==
  [][\A t \in Threads :
       (Running(t) /\ wake[t] = "claim" /\ ret[t] = <<>>
          /\ t \in owns /\ t \notin owns')
         => /\ panic' = "none"
            /\ km_holder' = NULL /\ km_waitq' = <<>> /\ tq_size' = 0
            /\ kt_state'[t] = "KT_RUN" /\ curthr' = t]_vars

C13_Witness ==
  \E t \in Threads :
    /\ curthr = t /\ pc[t] = "ready" /\ wake[t] = "claim" /\ ret[t] = <<>>
    /\ t \notin owns /\ panic = "none"
    /\ km_holder = NULL /\ km_waitq = <<>> /\ tq_size = 0

\* C14: the KASSERT after the claim/block branch of kmutex_lock_cancellable
\* (kmutex.c:79) never fails
C14_CancellableResumesAsHolder == panic # "kmutex_lock_cancellable:79"

\* C15: when a cancelled thread that was handed the mutex in
\* kmutex_lock_cancellable resumes, it is the holder and its return releases
\* the mutex through kmutex_unlock: the head waiter becomes holder and is
\* made runnable, the other waiters keep their order, and with no waiter the
\* mutex is free
C15_CancelledHandoffPassesOn ==
  [][\A t \in Threads :
       (panic = "none" /\ curthr = t /\ pc[t] = "lockc_resume"
          /\ wake[t] = "handoff" /\ kt_cancelled[t])
         => /\ km_holder = t
            /\ pc'[t] = "ready" /\ panic' = "none"
            /\ IF km_waitq = <<>>
               THEN km_holder' = NULL /\ km_waitq' = <<>> /\ tq_size' = 0
               ELSE /\ km_holder' = Head(km_waitq)
                    /\ km_waitq' = Tail(km_waitq)
                    /\ tq_size' = Len(km_waitq')
                    /\ kt_state'[Head(km_waitq)] = "KT_RUN"
                    /\ InQueue(runq', Head(km_waitq))]_vars

C15_Witness ==
  \E t \in Threads :
    /\ pc[t] = "ready" /\ ret[t] = <<-EINTR>> /\ wake[t] = "handoff"
    /\ km_holder \in Threads \ {t}
    /\ wake[km_holder] = "handoff" /\ InQueue(runq, km_holder)
    /\ tq_size >= 1

\* C16: a thread asleep in kmutex_lock is in state KT_SLEEP; cancelling it
\* leaves its state and the wait queue as they are, and it becomes runnable
\* only as the head waiter that kmutex_unlock makes the holder
C16_CancelDoesNotWakeLock ==
  [][/\ \A k \in Threads :
          (pc[k] = "lock_resume" /\ kt_state[k] # "KT_RUN")
            => /\ kt_state[k] = "KT_SLEEP"
               /\ (kt_cancelled'[k] /\ ~ kt_cancelled[k])
                    => (kt_state'[k] = "KT_SLEEP" /\ km_waitq' = km_waitq)
               /\ kt_state'[k] = "KT_RUN"
                    => (Head(km_waitq) = k /\ km_holder' = k)
     /\ \A r \in Threads :
          (pc[r] = "lock_resume" /\ pc'[r] = "ready")
            => (km_holder' = r /\ panic' = "none")]_vars

C16_Witness ==
  \E k \in Threads :
    /\ pc[k] = "lock_resume" /\ wake[k] = "deferred"
    /\ kt_state[k] = "KT_SLEEP" /\ kt_cancelled[k]
    /\ InQueue(km_waitq, k)

\* C17: km_holder is NULL exactly when no thread has been granted the mutex
\* and not yet released it, and the holder is never linked in the mutex's
\* wait queue
Granted ==
  owns \cup {t \in Threads : pc[t] # "ready" /\ wake[t] \in {"claim", "handoff"}}

C17_HolderInvariant ==
  /\ km_holder = NULL <=> Granted = {}
  /\ km_holder # NULL => (Granted = {km_holder} /\ ~ InQueue(km_waitq, km_holder))

C17_Witness ==
  \E t \in Threads :
    /\ km_holder = t /\ pc[t] = "lock_resume" /\ wake[t] = "handoff"
    /\ Len(km_waitq) >= 1 /\ ~ InQueue(km_waitq, t)

\* C18: every thread is exactly one of executing, linked once in the run
\* queue, or linked once in the mutex's wait queue
Links(q, t) == Cardinality({i \in DOMAIN q : q[i] = t})

C18_NoLostThread ==
  \A t \in Threads :
    (IF curthr = t THEN 1 ELSE 0) + Links(runq, t) + Links(km_waitq, t) = 1

C18_Witness ==
  \E t, u \in Threads :
    /\ t # u /\ curthr \in Threads \ {t, u}
    /\ wake[t] = "handoff" /\ Links(runq, t) = 1
    /\ Links(km_waitq, u) = 1

\* C19: a non-empty wait queue, and any thread asleep on the mutex, implies
\* that the mutex is held
C19_WaitersImplyHeld ==
  /\ tq_size > 0 => km_holder # NULL
  /\ km_waitq # <<>> => km_holder # NULL
  /\ Sleepers # {} => km_holder # NULL

C19_Witness ==
  /\ tq_size >= 2 /\ km_holder # NULL
  /\ kt_state[km_holder] = "KT_RUN"
  /\ Sleepers # {}

\* C20: a thread linked in the wait queue is KT_SLEEP inside kmutex_lock or
\* KT_SLEEP_CANCELLABLE inside kmutex_lock_cancellable, and every thread that
\* executes or is on the run queue is KT_RUN
C20_StateTracksQueue ==
  \A t \in Threads :
    /\ InQueue(km_waitq, t)
         => \/ pc[t] = "lock_resume" /\ kt_state[t] = "KT_SLEEP"
            \/ pc[t] = "lockc_resume" /\ kt_state[t] = "KT_SLEEP_CANCELLABLE"
    /\ (curthr = t \/ InQueue(runq, t)) => kt_state[t] = "KT_RUN"

C20_Witness ==
  \E t, u \in Threads :
    /\ InQueue(km_waitq, t) /\ kt_state[t] = "KT_SLEEP"
    /\ InQueue(km_waitq, u) /\ kt_state[u] = "KT_SLEEP_CANCELLABLE"
    /\ \E h \in Threads : km_holder = h /\ wake[h] = "handoff"
                          /\ pc[h] # "ready" /\ kt_state[h] = "KT_RUN"
====
